---------------------------- MODULE Spec2Model ----------------------------
(***************************************************************************)
(* Myers' bit-parallel edit distance on one warp, with its backtrace and   *)
(* the batch driver (cudaaligner/src/myers_gpu.cu).                        *)
(*                                                                         *)
(* The source fixes the word width at 32 bits and the warp at 32 lanes.    *)
(* The model is written for any width and any warp size and is checked     *)
(* with the small values of word_size and warp_size below, so that block   *)
(* layouts with a tail block, a full warp of blocks and several strides    *)
(* are reached by short queries.  A lane mask (uint32_t in the source) is  *)
(* the set of lanes whose bit is set.                                      *)
(***************************************************************************)
EXTENDS Integers, Sequences, FiniteSets

VARIABLES
    pc,           \* where the host call / the running kernel stands
    call,         \* entry point in progress
    query,        \* query of the alignment in progress (sequences_d slice)
    target,       \* target of the alignment in progress
    pv, mv,       \* device_matrix_view<WordType>: [block, column] -> word
    score,        \* device_matrix_view<int32_t>:  [block, column] -> score
    t,            \* column the compute kernel works on
    stride,       \* stride of the lane loop (idx = lane + stride * warp_size)
    warp_carry,   \* per-lane register warp_carry
    last_mask,    \* warp_mask of the last stride executed
    add_iters,    \* iterations of the loop of warp_add_sync in that stride
    collectives,  \* warp collectives executed in that stride
    asserts,      \* assertions of the source that were violated so far
    oob,          \* matrix accesses outside a view so far
    result,       \* value returned by myers_compute_edit_distance
    fullscore,    \* matrix returned by myers_get_full_score_matrix
    n_alignments, \* batch size handed to myers_gpu
    id,           \* alignment of the batch in progress
    paths,        \* paths_d: slot -> code
    lengths,      \* path_lengths_d: alignment -> length
    emitted,      \* alignment -> the codes its backtrace wrote, in order
    i, j,         \* backtrace position
    myscore,      \* backtrace running score
    pos           \* backtrace write position

vars == << pc, call, query, target, pv, mv, score, t, stride, warp_carry,
           last_mask, add_iters, collectives, asserts, oob, result, fullscore, n_alignments, id,
           paths, lengths, emitted, i, j, myscore, pos >>

----------------------------------------------------------------------------
(* Sizes.  The source has word_size = warp_size = 32.                      *)

word_size == 2
warp_size == 3

\* Longest query / target handed to myers_compute_edit_distance; MaxQuery
\* is one more than a full stride holds.
MaxQuery == 7
MaxTarget == 2
\* Longest query handed to myers_get_full_score_matrix.
MaxMatrixQuery == 4
\* Longest query / target of a request of a batch.
MaxBatchQuery == 3
MaxBatchTarget == 1

Sigma == {"A", "C", "G", "T"}
\* Letters the inputs are drawn from.
QueryLetters == {"A", "C"}
TargetLetters == {"A", "C"}
BatchSizes == {1, 2}

Strings(S, n) == UNION { [1..k -> S] : k \in 0..n }

Unwritten == -1

----------------------------------------------------------------------------
(* WordType arithmetic: a word is a number in 0 .. 2^word_size - 1.        *)

Words == 0 .. (2^word_size - 1)
BitIdx == 0 .. (word_size - 1)
AllOnes == 2^word_size - 1

\* The identity.  TLC keeps [k \in S |-> e] unevaluated and evaluates e at
\* every application; comparing the function makes it evaluate e once.
Strict(f) == IF f = f THEN f ELSE f

Bit(x, b) == (x \div (2^b)) % 2

RECURSIVE SetToWord(_)
SetToWord(S) ==
    IF S = {} THEN 0
    ELSE LET b == CHOOSE b \in S : TRUE IN 2^b + SetToWord(S \ {b})

AndTable == Strict([x \in Words, y \in Words |->
                SetToWord({b \in BitIdx : Bit(x, b) = 1 /\ Bit(y, b) = 1})])
OrTable  == Strict([x \in Words, y \in Words |->
                SetToWord({b \in BitIdx : Bit(x, b) = 1 \/ Bit(y, b) = 1})])
PopcTable == Strict([x \in Words |->
                Cardinality({b \in BitIdx : Bit(x, b) = 1})])

And(x, y) == AndTable[x, y]
Or(x, y)  == OrTable[x, y]
Not(x)    == AllOnes - x
Xor(x, y) == And(Or(x, y), Not(And(x, y)))
Shl(x, k) == (x * 2^k) % (2^word_size)
popc(x)   == PopcTable[x]

Lanes == 0 .. (warp_size - 1)
FullMask == Lanes


----------------------------------------------------------------------------
(* Warp collectives.  v, a, b map each executing lane to its register.     *)

\* __shfl_up_sync(warp_mask, v, 1) as lane k sees it: the value of lane
\* k - 1; lane 0 has no source lane and gets its own value back.
shfl_up_sync(warp_mask, v, k) == IF k >= 1 THEN v[k - 1] ELSE v[k]

\* __any_sync(warp_mask, carry)
any_sync(warp_mask, carry) == \E k \in warp_mask : carry[k] # 0

warp_leftshift_sync(warp_mask, v) ==
    LET msb == Strict([k \in DOMAIN v |-> v[k] \div (2^(word_size - 1))])
    IN Strict([k \in DOMAIN v |->
          LET x == shfl_up_sync(warp_mask, msb, k)
          IN IF k # 0 THEN Or(Shl(v[k], 1), x) ELSE Shl(v[k], 1)])

\* Body of the while loop of warp_add_sync, for all lanes: r is the 64-bit
\* accumulator (already cut to word_size bits), carry the pending carry.
RECURSIVE warp_add_loop(_, _, _, _)
warp_add_loop(warp_mask, r, carry, n) ==
    IF any_sync(warp_mask, carry)
    THEN LET x  == Strict([k \in DOMAIN r |-> shfl_up_sync(warp_mask, carry, k)])
             r1 == Strict([k \in DOMAIN r |-> IF k # 0 THEN r[k] + x[k] ELSE r[k]])
         IN warp_add_loop(warp_mask,
                          Strict([k \in DOMAIN r |-> r1[k] % (2^word_size)]),
                          Strict([k \in DOMAIN r |-> r1[k] \div (2^word_size)]),
                          n + 1)
    ELSE [r |-> r, iters |-> n]

\* warp_add_sync without the r &= 0xffff'ffff of line 47: the carry of the
\* local addition stays in r and is counted again by the loop.
warp_add_sync_unmasked(warp_mask, a, b) ==
    LET r0 == Strict([k \in DOMAIN a |-> a[k] + b[k]])
    IN warp_add_loop(warp_mask, r0,
                     Strict([k \in DOMAIN a |-> r0[k] \div (2^word_size)]),
                     0)

\* The sum, and the number of times the loop body ran.
warp_add_sync(warp_mask, a, b) ==
    LET r0 == Strict([k \in DOMAIN a |-> a[k] + b[k]])
    IN warp_add_loop(warp_mask,
                     Strict([k \in DOMAIN a |-> r0[k] % (2^word_size)]),
                     Strict([k \in DOMAIN a |-> r0[k] \div (2^word_size)]),
                     0)

\* A result the CUDA programming guide leaves undefined.  The kernel only
\* tests the sign of warp_carry, so one value per sign stands for all.
UndefinedCarry == {-1, 0, 1}

\* __shfl_down_sync(mask, v, delta) as lane k sees it, when the lanes of
\* executing all call it: the values lane k can receive.  "Each calling
\* thread must have its own bit set in the mask, [...] or the result is
\* undefined."
shfl_down_sync(mask, executing, v, delta, k) ==
    IF executing \subseteq mask
    THEN {IF k + delta \in Lanes THEN v[k + delta] ELSE v[k]}
    ELSE UndefinedCarry

----------------------------------------------------------------------------
(* myers_advance_block, for all executing lanes in lockstep.               *)

stage1_xv(eq, mv_) == Or(eq, mv_)
stage1_eq(eq, carry_in) == IF carry_in < 0 THEN Or(eq, 1) ELSE eq
stage1_xh(sum, pv_, eq) == Or(Xor(sum, pv_), eq)
stage1_ph(mv_, xh, pv_) == Or(mv_, Not(Or(xh, pv_)))
stage1_mh(pv_, xh) == And(pv_, xh)
carry_out_of(ph, mh, highest_bit) ==
    (IF And(ph, highest_bit) = 0 THEN 0 ELSE 1)
        - (IF And(mh, highest_bit) = 0 THEN 0 ELSE 1)
carry_mh(mh, carry_in) == IF carry_in < 0 THEN Or(mh, 1) ELSE mh
carry_ph(ph, carry_in) == IF carry_in > 0 THEN Or(ph, 1) ELSE ph
\* Stage 2 with the complement applied to xv alone.
stage2_pv_complement_xv(mh, xv, ph) == Or(mh, Or(Not(xv), ph))
stage2_pv(mh, xv, ph) == Or(mh, Not(Or(xv, ph)))
stage2_mv(ph, xv) == And(ph, xv)

myers_advance_block(warp_mask, highest_bit, eq, pv_in, mv_in, carry_in) ==
    LET E   == DOMAIN pv_in
        xv  == Strict([k \in E |-> stage1_xv(eq[k], mv_in[k])])
        eq1 == Strict([k \in E |-> stage1_eq(eq[k], carry_in[k])])
        sum == warp_add_sync(warp_mask,
                             Strict([k \in E |-> And(eq1[k], pv_in[k])]), pv_in)
        xh  == Strict([k \in E |-> stage1_xh(sum.r[k], pv_in[k], eq1[k])])
        ph  == Strict([k \in E |-> stage1_ph(mv_in[k], xh[k], pv_in[k])])
        mh  == Strict([k \in E |-> stage1_mh(pv_in[k], xh[k])])
        phs == warp_leftshift_sync(warp_mask, ph)
        mhs == warp_leftshift_sync(warp_mask, mh)
        mh2 == Strict([k \in E |-> carry_mh(mhs[k], carry_in[k])])
        ph2 == Strict([k \in E |-> carry_ph(phs[k], carry_in[k])])
    IN [ assert_ok |-> \A k \in E : And(pv_in[k], mv_in[k]) = 0,
         pv        |-> Strict([k \in E |-> stage2_pv(mh2[k], xv[k], ph2[k])]),
         mv        |-> Strict([k \in E |-> stage2_mv(ph2[k], xv[k])]),
         carry_out |-> Strict([k \in E |->
                          carry_out_of(ph[k], mh[k], highest_bit[k])]),
         iters     |-> sum.iters ]

\* Bit i is set where query[offset + i] = x (strings are 1-based here).
myers_preprocess(x, q, query_size, offset) ==
    LET max_i == IF query_size - offset < word_size
                 THEN query_size - offset ELSE word_size
    IN SetToWord({b \in 0 .. (max_i - 1) : q[b + offset + 1] = x})

\* The lambda of lines 287-302.
eq_of(x, peq_a, peq_c, peq_g, peq_t) ==
    CASE x = "A" -> peq_a
      [] x = "C" -> peq_c
      [] x = "G" -> peq_g
      [] x = "T" -> peq_t
      [] OTHER   -> 0

n_words_of(query_size) == (query_size + word_size - 1) \div word_size

highest_bit_of(idx, n_words, query_size) ==
    2^(IF idx = n_words - 1
       THEN query_size - (n_words - 1) * word_size - 1
       ELSE word_size - 1)

warp_mask_of(idx, n_words) ==
    IF idx \div warp_size < n_words \div warp_size
    THEN FullMask
    ELSE 0 .. ((n_words % warp_size) - 1)

last_entry_mask_of(query_size) ==
    IF query_size % word_size # 0
    THEN 2^(query_size % word_size) - 1
    ELSE AllOnes

MinOf(a, b) == IF a < b THEN a ELSE b
MaxOf(a, b) == IF a > b THEN a ELSE b


\* C++ integer division and remainder (truncation toward zero).
CDiv(a, b) == IF a >= 0 THEN a \div b ELSE -((-a) \div b)
CMod(a, b) == a - b * CDiv(a, b)

----------------------------------------------------------------------------
(* State of the alignment in progress.                                     *)

query_size  == Len(query)
target_size == Len(target)
n_words     == n_words_of(query_size)

InView(m, b, c) == <<b, c>> \in DOMAIN m

NoMatrix == << >>
ColumnStart == [k \in Lanes |-> IF k = 0 THEN 1 ELSE 0]

Init ==
    /\ pc = "idle"
    /\ call = "none"
    /\ query = << >>
    /\ target = << >>
    /\ pv = NoMatrix
    /\ mv = NoMatrix
    /\ score = NoMatrix
    /\ t = 0
    /\ stride = 0
    /\ warp_carry = [k \in Lanes |-> 0]
    /\ last_mask = {}
    /\ add_iters = 0
    /\ collectives = {}
    /\ asserts = {}
    /\ oob = {}
    /\ result = Unwritten
    /\ fullscore = NoMatrix
    /\ n_alignments = 0
    /\ id = 0
    /\ paths = << >>
    /\ lengths = << >>
    /\ emitted = << >>
    /\ i = 0
    /\ j = 0
    /\ myscore = 0
    /\ pos = 0

kernel_vars == << pv, mv, score, t, stride, warp_carry, last_mask, add_iters,
                 collectives >>
batch_vars  == << n_alignments, id, paths, lengths, emitted >>
trace_vars  == << i, j, myscore, pos >>

----------------------------------------------------------------------------
(* myers_compute_score_matrix_kernel                                       *)

\* Lines 244-266: the views and column 0.
compute_kernel_init ==
    /\ pc = "kernel"
    /\ asserts' = IF query_size > 0 THEN asserts
                  ELSE asserts \cup {"compute_kernel: query_size > 0"}
    /\ pv' = [b \in 0 .. (n_words - 1), c \in 0 .. target_size |->
                IF c = 0 THEN AllOnes ELSE Unwritten]
    /\ mv' = [b \in 0 .. (n_words - 1), c \in 0 .. target_size |->
                IF c = 0 THEN 0 ELSE Unwritten]
    /\ score' = [b \in 0 .. (n_words - 1), c \in 0 .. target_size |->
                IF c = 0 THEN MinOf((b + 1) * word_size, query_size)
                ELSE Unwritten]
    /\ t' = 1
    /\ stride' = 0
    /\ warp_carry' = ColumnStart
    /\ pc' = IF target_size >= 1 /\ n_words >= 1 THEN "columns" ELSE "computed"
    /\ UNCHANGED << call, query, target, last_mask, add_iters, collectives, oob, result,
                    fullscore >>
    /\ UNCHANGED batch_vars
    /\ UNCHANGED trace_vars

\* Mask the hand-off shuffle of line 310 is given: 0x8000'0001u, the first
\* and the last lane.
handoff_mask == {0, warp_size - 1}

\* The collectives the lanes of executing run in one stride, each with the
\* mask it is given: the vote of line 51 and, when the loop body runs, the
\* shuffle of line 53; the shuffle of line 32 (for ph and for mh); for a
\* full stride the shuffle of line 310.
collectives_of(warp_mask, executing, iters) ==
    { [op |-> "warp_add_sync: __any_sync", mask |-> warp_mask,
       lanes |-> executing],
      [op |-> "warp_leftshift_sync: __shfl_up_sync", mask |-> warp_mask,
       lanes |-> executing] }
    \cup (IF iters >= 1
          THEN { [op |-> "warp_add_sync: __shfl_up_sync", mask |-> warp_mask,
                  lanes |-> executing] }
          ELSE {})
    \cup (IF warp_mask = FullMask
          THEN { [op |-> "__shfl_down_sync", mask |-> handoff_mask,
                  lanes |-> executing] }
          ELSE {})

\* Lines 273-315: one stride of the lane loop of column t, all lanes that
\* are still in the loop in lockstep.
compute_kernel_stride ==
    /\ pc = "columns"
    /\ LET E     == {k \in Lanes : k + stride * warp_size < n_words}
           idx   == Strict([k \in E |-> k + stride * warp_size])
           mask  == warp_mask_of(stride * warp_size, n_words)
           peq   == [k \in E |-> [x \in Sigma |->
                        myers_preprocess(x, query, query_size, idx[k] * word_size)]]
           hb    == Strict([k \in E |->
                        highest_bit_of(idx[k], n_words, query_size)])
           eq    == Strict([k \in E |->
                        eq_of(target[t], peq[k]["A"], peq[k]["C"],
                              peq[k]["G"], peq[k]["T"])])
           adv   == myers_advance_block(mask, hb, eq,
                        Strict([k \in E |-> pv[idx[k], t - 1]]),
                        Strict([k \in E |-> mv[idx[k], t - 1]]),
                        Strict([k \in E |-> warp_carry[k]]))
           \* warp_carry after line 307
           wc    == Strict([k \in E |-> IF k = 0 THEN 0 ELSE adv.carry_out[k]])
           more  == (stride + 1) * warp_size < n_words
       IN \E handed \in (IF mask = FullMask
                         THEN shfl_down_sync(handoff_mask, E, wc,
                                             warp_size - 1, 0)
                         ELSE {wc[0]}) :
            /\ asserts' = IF adv.assert_ok THEN asserts
                          ELSE asserts \cup {"advance_block: (pv & mv) == 0"}
            /\ score' = [b \in 0 .. (n_words - 1), c \in 0 .. target_size |->
                           IF c = t /\ b \in {idx[k] : k \in E}
                           THEN score[b, t - 1] + adv.carry_out[b - stride * warp_size]
                           ELSE score[b, c]]
            /\ pv' = [b \in 0 .. (n_words - 1), c \in 0 .. target_size |->
                           IF c = t /\ b \in {idx[k] : k \in E}
                           THEN adv.pv[b - stride * warp_size] ELSE pv[b, c]]
            /\ mv' = [b \in 0 .. (n_words - 1), c \in 0 .. target_size |->
                           IF c = t /\ b \in {idx[k] : k \in E}
                           THEN adv.mv[b - stride * warp_size] ELSE mv[b, c]]
            /\ last_mask' = mask
            /\ add_iters' = adv.iters
            /\ collectives' = collectives_of(mask, E, adv.iters)
            /\ IF more
               THEN /\ stride' = stride + 1
                    /\ t' = t
                    /\ warp_carry' = [k \in Lanes |-> IF k = 0 THEN handed ELSE 0]
                    /\ pc' = "columns"
               ELSE /\ stride' = 0
                    /\ t' = t + 1
                    /\ warp_carry' = ColumnStart
                    /\ pc' = IF t < target_size THEN "columns" ELSE "computed"
    /\ UNCHANGED << call, query, target, oob, result, fullscore >>
    /\ UNCHANGED batch_vars
    /\ UNCHANGED trace_vars

----------------------------------------------------------------------------
(* get_myers_score: undefined_shift is what (~WordType(1)) << bit_idx      *)
(* yields when bit_idx is negative (the accessor called with i = 0).       *)

shift_mask(bit_idx, undefined_shift) ==
    IF bit_idx >= 0 THEN Shl(Not(1), bit_idx) ELSE undefined_shift

get_myers_score(i_, j_, pv_, mv_, score_, last_entry_mask, undefined_shift) ==
    LET word_idx == CDiv(i_ - 1, word_size)
        bit_idx  == CMod(i_ - 1, word_size)
        m0       == shift_mask(bit_idx, undefined_shift)
        mask     == IF word_idx = n_words - 1
                    THEN And(m0, last_entry_mask) ELSE m0
    IN score_[word_idx, j_] - popc(And(mask, pv_[word_idx, j_]))
                            + popc(And(mask, mv_[word_idx, j_]))

\* Values the undefined shift of a call with row i_ can yield.
ShiftOutcomes(i_) == IF i_ >= 1 THEN {0} ELSE Words

----------------------------------------------------------------------------
(* myers_compute_edit_distance(target, query)                              *)

myers_compute_edit_distance_call ==
    /\ pc = "idle"
    /\ \E q \in Strings(QueryLetters, MaxQuery), tg \in Strings(TargetLetters, MaxTarget) :
         /\ query' = q
         /\ target' = tg
         /\ IF Len(q) = 0
            THEN /\ result' = Len(tg)
                 /\ pc' = "returned"
            ELSE /\ result' = result
                 /\ pc' = "kernel"
    /\ call' = "edit_distance"
    /\ UNCHANGED << asserts, oob, fullscore >>
    /\ UNCHANGED kernel_vars
    /\ UNCHANGED batch_vars
    /\ UNCHANGED trace_vars

\* Lines 346-349.
myers_compute_edit_distance_return ==
    /\ pc = "computed"
    /\ call = "edit_distance"
    /\ result' = score[n_words - 1, target_size]
    /\ pc' = "returned"
    /\ UNCHANGED << call, query, target, asserts, oob, fullscore >>
    /\ UNCHANGED kernel_vars
    /\ UNCHANGED batch_vars
    /\ UNCHANGED trace_vars

----------------------------------------------------------------------------
(* myers_get_full_score_matrix(target, query)                              *)

myers_get_full_score_matrix_call ==
    /\ pc = "idle"
    /\ \E q \in Strings(QueryLetters, MaxMatrixQuery), tg \in Strings(TargetLetters, MaxTarget) :
         /\ query' = q
         /\ target' = tg
         /\ IF Len(tg) = 0
            THEN /\ fullscore' = [r \in 0 .. Len(q), c \in 0 .. 0 |-> r]
                 /\ pc' = "returned"
            ELSE IF Len(q) = 0
            THEN /\ fullscore' = [r \in 0 .. 0, c \in 0 .. Len(tg) |-> c]
                 /\ pc' = "returned"
            ELSE /\ fullscore' = fullscore
                 /\ pc' = "kernel"
    /\ call' = "full_score_matrix"
    /\ UNCHANGED << asserts, oob, result >>
    /\ UNCHANGED kernel_vars
    /\ UNCHANGED batch_vars
    /\ UNCHANGED trace_vars

\* Lines 214-233, and the copy to the host of lines 393-396.
myers_convert_to_full_score_matrix_kernel ==
    /\ pc = "computed"
    /\ call = "full_score_matrix"
    /\ asserts' = IF query_size > 0 THEN asserts
                  ELSE asserts \cup {"convert_kernel: query_size > 0"}
    /\ fullscore' = [r \in 0 .. query_size, c \in 0 .. target_size |->
                       IF r = 0 THEN c
                       ELSE get_myers_score(r, c, pv, mv, score,
                                            last_entry_mask_of(query_size), 0)]
    /\ pc' = "returned"
    /\ UNCHANGED << call, query, target, oob, result >>
    /\ UNCHANGED kernel_vars
    /\ UNCHANGED batch_vars
    /\ UNCHANGED trace_vars

----------------------------------------------------------------------------
(* myers_gpu: the batch driver, and the backtrace it launches.             *)

\* Parameter of myers_gpu: the caller sizes every path buffer for the
\* longest path of the longest pair.
max_path_length == MaxBatchQuery + MaxBatchTarget

\* The local of line 127, which hides the kernel parameter.
backtrace_max_path_length == 0
query_ins  == 2
target_ins == 3

\* Line 141: path = paths_base + id * max_path_length.
path_of(id_) == id_ * backtrace_max_path_length

\* Line 167 with a code of its own for a mismatch.
diag_code_mismatch(diag, myscore_) == IF diag = myscore_ THEN 0 ELSE 4

\* Line 167.
diag_code(diag, myscore_) == IF diag = myscore_ THEN 0 ELSE 1

\* What a read outside the score view can yield.  The backtrace compares
\* myscore with cell values and cell values + 1 only, so the values below
\* stand for every int32.
UndefinedScores == -1 .. (MaxOf(query_size, target_size) + 1)

myers_gpu_call ==
    /\ pc = "idle"
    /\ \E n \in BatchSizes :
         /\ n_alignments' = n
         /\ paths' = [s \in 0 .. (n * max_path_length - 1) |-> Unwritten]
         /\ lengths' = [a \in 0 .. (n - 1) |-> Unwritten]
         /\ emitted' = [a \in 0 .. (n - 1) |-> << >>]
    /\ id' = 0
    /\ call' = "gpu"
    /\ pc' = "gpu_loop"
    /\ UNCHANGED << query, target, asserts, oob, result, fullscore >>
    /\ UNCHANGED kernel_vars
    /\ UNCHANGED trace_vars

\* Line 417: the compute kernel is launched on alignment id.  The pair is
\* the content of sequences_d and sequence_lengths_d for that alignment,
\* which nothing reads before this launch.  The views of the new alignment
\* are taken over the storage of the former one; its cells count as not
\* written, a read outside the views being undefined anyway.
myers_gpu_launch ==
    /\ pc = "gpu_loop"
    /\ id < n_alignments
    /\ \E q \in Strings(QueryLetters, MaxBatchQuery),
          tg \in Strings(QueryLetters, MaxBatchTarget) :
         /\ query' = q
         /\ target' = tg
    /\ asserts' = {}
    /\ oob' = {}
    /\ pv' = NoMatrix
    /\ mv' = NoMatrix
    /\ score' = NoMatrix
    /\ t' = 0
    /\ stride' = 0
    /\ warp_carry' = [k \in Lanes |-> 0]
    /\ last_mask' = {}
    /\ add_iters' = 0
    /\ collectives' = {}
    /\ pc' = "kernel"
    /\ UNCHANGED << call, result, fullscore >>
    /\ UNCHANGED batch_vars
    /\ UNCHANGED trace_vars

\* Lines 197-204 and 127-146: the views, and the start of myers_backtrace.
myers_backtrace_start ==
    /\ pc = "computed"
    /\ call = "gpu"
    /\ LET row == query_size \div word_size
       IN IF InView(score, row, target_size)
          THEN /\ myscore' = score[row, target_size]
               /\ oob' = oob
          ELSE /\ myscore' \in UndefinedScores
               /\ oob' = oob \cup {"backtrace: score(i / word_size, j)"}
    /\ i' = query_size
    /\ j' = target_size
    /\ pos' = 0
    /\ pc' = "trace"
    /\ UNCHANGED << call, query, target, asserts, result, fullscore >>
    /\ UNCHANGED kernel_vars
    /\ UNCHANGED batch_vars

\* Lines 147-174: one iteration of the main loop.
myers_backtrace_step ==
    /\ pc = "trace"
    /\ i > 0 /\ j > 0
    /\ \E ua \in ShiftOutcomes(i - 1), ud \in ShiftOutcomes(i - 1) :
         LET lem   == last_entry_mask_of(query_size)
             above == get_myers_score(i - 1, j, pv, mv, score, lem, ua)
             diag  == get_myers_score(i - 1, j - 1, pv, mv, score, lem, ud)
             left  == get_myers_score(i, j - 1, pv, mv, score, lem, 0)
             r     == IF left + 1 = myscore THEN query_ins
                      ELSE IF above + 1 = myscore THEN target_ins
                      ELSE diag_code(diag, myscore)
         IN /\ myscore' = IF left + 1 = myscore THEN left
                          ELSE IF above + 1 = myscore THEN above
                          ELSE diag
            /\ i' = IF left + 1 = myscore THEN i ELSE i - 1
            /\ j' = IF left + 1 = myscore THEN j - 1
                    ELSE IF above + 1 = myscore THEN j
                    ELSE j - 1
            /\ paths' = [paths EXCEPT ![path_of(id) + pos] = r]
            /\ emitted' = [emitted EXCEPT ![id] = Append(@, r)]
    /\ asserts' = IF i - 1 > 0 THEN asserts
                  ELSE asserts \cup {"get_myers_score: i > 0"}
    /\ pos' = pos + 1
    /\ UNCHANGED << pc, call, query, target, oob, result, fullscore,
                    n_alignments, id, lengths >>
    /\ UNCHANGED kernel_vars

\* Lines 175-187: the two tail loops and the length; the kernel ends and
\* the driver goes on to the next alignment.
myers_backtrace_tail ==
    /\ pc = "trace"
    /\ ~(i > 0 /\ j > 0)
    /\ LET tail == [k \in 1 .. (i + j) |-> IF k <= i THEN 1 ELSE 2]
       IN /\ paths' = [s \in DOMAIN paths |->
                         IF s - (path_of(id) + pos) \in 0 .. (i + j - 1)
                         THEN tail[s - (path_of(id) + pos) + 1]
                         ELSE paths[s]]
          /\ emitted' = [emitted EXCEPT ![id] = @ \o tail]
    /\ lengths' = [lengths EXCEPT ![id] = pos + i + j]
    /\ id' = id + 1
    /\ i' = 0
    /\ j' = 0
    /\ myscore' = 0
    /\ pos' = 0
    /\ pc' = "gpu_loop"
    /\ UNCHANGED << call, query, target, asserts, oob, result, fullscore,
                    n_alignments >>
    /\ UNCHANGED kernel_vars

\* Line 420.
myers_gpu_sync ==
    /\ pc = "gpu_loop"
    /\ id = n_alignments
    /\ pc' = "returned"
    /\ UNCHANGED << call, query, target, asserts, oob, result, fullscore >>
    /\ UNCHANGED kernel_vars
    /\ UNCHANGED batch_vars
    /\ UNCHANGED trace_vars

Next ==
    \/ myers_compute_edit_distance_call
    \/ myers_compute_edit_distance_return
    \/ myers_get_full_score_matrix_call
    \/ myers_convert_to_full_score_matrix_kernel
    \/ compute_kernel_init
    \/ compute_kernel_stride
    \/ myers_gpu_call
    \/ myers_gpu_launch
    \/ myers_backtrace_start
    \/ myers_backtrace_step
    \/ myers_backtrace_tail
    \/ myers_gpu_sync

Spec == Init /\ [][Next]_vars

----------------------------------------------------------------------------
(* Reference: the unit-cost Levenshtein recurrence, column by column.     *)

Min3(a, b, c) == MinOf(a, MinOf(b, c))

\* Column of letter x from the column prev to its left; acc holds rows
\* 0 .. Len(acc) - 1 of the new column.
RECURSIVE DPColumn(_, _, _, _)
DPColumn(q, x, prev, acc) ==
    IF Len(acc) = Len(prev) THEN acc
    ELSE LET r == Len(acc)
         IN DPColumn(q, x, prev,
                Append(acc, Min3(acc[r] + 1, prev[r + 1] + 1,
                                 prev[r] + (IF q[r] = x THEN 0 ELSE 1))))

RECURSIVE DPColumns(_, _, _)
DPColumns(q, tg, c) ==
    IF c = 0 THEN [r \in 1 .. (Len(q) + 1) |-> r - 1]
    ELSE DPColumn(q, tg[c], DPColumns(q, tg, c - 1), << c >>)

DP(q, tg, r, c) == DPColumns(q, tg, c)[r + 1]

Levenshtein(q, tg) == DP(q, tg, Len(q), Len(tg))

\* The alignment the batch driver finished last, and its path.
Finished == call = "gpu" /\ pc = "gpu_loop" /\ id >= 1
LastPath == [k \in 1 .. lengths[id - 1] |-> emitted[id - 1][k]]

----------------------------------------------------------------------------
(* Claims.                                                                 *)

\* C1: myers_compute_edit_distance returns the Levenshtein distance of
\* the query and the target, whatever the block layout, several strides
\* included.
C1_EditDistanceIsLevenshtein ==
    (call = "edit_distance" /\ pc = "returned")
        => result = Levenshtein(query, target)

\* C2: the entries other than 0 among the first lengths[id] entries of the
\* path of a finished alignment are as many as the Levenshtein distance of
\* its query and target.
C2_NonMatchCountIsDistance ==
    Finished
        => Cardinality({k \in DOMAIN LastPath : LastPath[k] # 0})
               = Levenshtein(query, target)

\* C3: when the batch is done, the path of alignment a is in slots
\* a * max_path_length .. a * max_path_length + lengths[a] - 1 of paths.
C3_PathInOwnBuffer ==
    (call = "gpu" /\ pc = "returned")
        => \A a \in 0 .. (n_alignments - 1) :
              \A k \in 1 .. lengths[a] :
                 paths[a * max_path_length + k - 1] = emitted[a][k]

\* C4: an alignment with an empty query or target finishes with no
\* assertion violated and no access outside the views, and its path is
\* query_size entries 1 followed by target_size entries 2.
C4_EmptyRequestHandled ==
    (Finished /\ (query_size = 0 \/ target_size = 0))
        => /\ asserts = {}
           /\ oob = {}
           /\ lengths[id - 1] = query_size + target_size
           /\ LastPath = [k \in 1 .. (query_size + target_size) |->
                             IF k <= query_size THEN 1 ELSE 2]

\* C5, as the spec states it: every entry written to a path is 0, 1 or 2.
C5_CodesZeroToTwo ==
    \A s \in DOMAIN paths : paths[s] # Unwritten => paths[s] \in {0, 1, 2}

\* C5, amended: every entry written to a path is 0, 1, 2 or 3.
C5_CodesZeroToThree ==
    \A s \in DOMAIN paths : paths[s] # Unwritten => paths[s] \in {0, 1, 2, 3}

\* An alignment that violated no assertion and read nothing outside its
\* views, finished with a 3 in its path.
C5_FinishedWithCodeThree ==
    /\ Finished
    /\ asserts = {}
    /\ oob = {}
    /\ \E k \in DOMAIN LastPath : LastPath[k] = 3

\* C6: pv & mv == 0 in every cell the compute kernel has written, and the
\* assertion at the entry of myers_advance_block never fails.
C6_PvMvDisjoint ==
    /\ "advance_block: (pv & mv) == 0" \notin asserts
    /\ \A bc \in DOMAIN pv : pv[bc] # Unwritten => And(pv[bc], mv[bc]) = 0

\* A block of the second stride written in the second column, so after a
\* carry handed to lane 0 and a column that is not the initial one, with
\* both vectors non-zero.
C6_SecondStrideWritten ==
    /\ InView(pv, warp_size, 2)
    /\ pv[warp_size, 2] \notin {Unwritten, 0}
    /\ mv[warp_size, 2] \notin {Unwritten, 0}

\* C7: on the triples the compute kernel stored for a non-empty query and
\* target, get_myers_score(r, c) is DP[r, c] for r in 1 .. n, c in 0 .. m,
\* and myers_get_full_score_matrix returns the DP matrix.
C7_CellAccessorIsDP ==
    /\ (pc = "computed" /\ query_size >= 1 /\ target_size >= 1)
          => \A r \in 1 .. query_size, c \in 0 .. target_size :
                get_myers_score(r, c, pv, mv, score,
                                last_entry_mask_of(query_size), 0)
                    = DP(query, target, r, c)
    /\ (call = "full_score_matrix" /\ pc = "returned")
          => \A r \in 0 .. query_size, c \in 0 .. target_size :
                fullscore[r, c] = DP(query, target, r, c)

\* C8: when the backtrace starts on a non-empty query, block row
\* query_size / word_size is a row of the score view and myscore is the DP
\* value at (query_size, target_size).
C8_StartRowInView ==
    (pc = "trace" /\ pos = 0 /\ i = query_size /\ j = target_size
        /\ query_size >= 1)
        => /\ InView(score, query_size \div word_size, target_size)
           /\ myscore = Levenshtein(query, target)

\* C9: the backtrace never calls get_myers_score with a row below 1.
C9_AccessorRowPositive ==
    "get_myers_score: i > 0" \notin asserts

C11_CollectivesUseStrideMask ==
    \A c \in collectives : c.mask = last_mask /\ c.lanes = c.mask

============================================================================
